---------------------------- MODULE Spec2Model ----------------------------
(***************************************************************************)
(* Transaction intake pipeline of backend-python/app.py: identity          *)
(* resolution, risk classification with local fallback, the in-memory /    *)
(* DynamoDB persistence layer, listing with identity filter, and clear.    *)
(*                                                                         *)
(* The handlers are coroutines on one event loop.  create_transaction      *)
(* suspends only inside the `async with httpx.AsyncClient()` block (the    *)
(* outbound risk call, lines 86-91); everything before it and everything   *)
(* after it runs without yielding.  list_transactions and                  *)
(* clear_transactions contain no await.  Hence the actions below:          *)
(*   create_begin   lines 63-91   (identity, then suspended at the call)   *)
(*   create_resume  lines 92-156  (reply, classification, record, save)    *)
(*   list_transactions, clear_transactions   (whole handler)               *)
(***************************************************************************)
EXTENDS Bags, FiniteSets, Integers, Sequences, TLC

VARIABLES
    env,                \* os.environ, read with os.getenv at request time
    boto3,              \* TRUE iff `import boto3` succeeded (lines 13-17)
    transactions_store, \* the module-level list (line 40), newest first
    ddb_table,          \* items of the DynamoDB table, keyed by id
    inflight,           \* bag of create requests suspended at the risk call
    now,                \* int(time.time())
    next_uuid,          \* uuid.uuid4() modelled as a fresh counter
    last,               \* the most recent response sent, with its request
    memlog              \* history: records inserted into transactions_store
                        \* since the last executed clear(), newest first

vars == <<env, boto3, transactions_store, ddb_table, inflight, now,
          next_uuid, last, memlog>>

(***************************************************************************)
(* Python values                                                           *)
(***************************************************************************)
None == "<None>"

Truthy(s) == s # None /\ s # ""

Min(a, b) == IF a < b THEN a ELSE b

Max(a, b) == IF a > b THEN a ELSE b

\* s[:n] for a list s, negative n included
PySliceTo(s, n) ==
    IF n >= 0 THEN SubSeq(s, 1, Min(n, Len(s)))
    ELSE SubSeq(s, 1, Max(0, Len(s) + n))

startswith(s, prefix) ==
    Len(s) >= Len(prefix) /\ SubSeq(s, 1, Len(prefix)) = prefix

RECURSIVE find(_, _, _)
\* index of the first occurrence of the one-character string c in s at or
\* after position i, 0 if there is none
find(s, c, i) ==
    IF i > Len(s) THEN 0
    ELSE IF SubSeq(s, i, i) = c THEN i
    ELSE find(s, c, i + 1)

\* s.split(" ", 1)[1], for an s that holds a space
split1_second(s) == SubSeq(s, find(s, " ", 1) + 1, Len(s))

UpperCase == "ABCDEFGHIJKLMNOPQRSTUVWXYZ"

LowerCase == "abcdefghijklmnopqrstuvwxyz"

lower_char(c) ==
    LET i == find(UpperCase, c, 1)
    IN  IF i = 0 THEN c ELSE SubSeq(LowerCase, i, i)

RECURSIVE lower(_)
lower(s) ==
    IF s = "" THEN "" ELSE lower_char(SubSeq(s, 1, 1)) \o lower(Tail(s))

Digits == "0123456789"

RECURSIVE digits_value(_, _)
\* value of a string of decimal digits with accumulator acc; -1 if a
\* character is not a digit
digits_value(s, acc) ==
    IF s = "" THEN acc
    ELSE LET d == find(Digits, SubSeq(s, 1, 1), 1)
         IN  IF d = 0 THEN -1 ELSE digits_value(Tail(s), 10 * acc + (d - 1))

\* int(s): [ok |-> FALSE] stands for ValueError
py_int(s) ==
    LET neg  == startswith(s, "-")
        body == IF neg \/ startswith(s, "+") THEN Tail(s) ELSE s
        v    == IF body = "" THEN -1 ELSE digits_value(body, 0)
    IN  IF v < 0 THEN [ok |-> FALSE, value |-> 0]
        ELSE [ok |-> TRUE, value |-> IF neg THEN 0 - v ELSE v]

(***************************************************************************)
(* Configuration                                                           *)
(***************************************************************************)
getenv(name) == env[name]

getenv_default(name, default) ==
    IF env[name] = None THEN default ELSE env[name]

(***************************************************************************)
(* Identity resolution (create_transaction, lines 65-82)                   *)
(***************************************************************************)
\* The ID tokens of the model: what the identity provider signed.
Tokens ==
    [ tokAl      |-> [valid |-> TRUE, aud |-> "client-1",
                      name |-> "Al", email |-> "al@x.io"],
      tokNoEmail |-> [valid |-> TRUE, aud |-> "client-1",
                      name |-> None, email |-> None],
      tokOther   |-> [valid |-> TRUE, aud |-> "client-2",
                      name |-> "Bob", email |-> "bob@x.io"],
      tokExpired |-> [valid |-> FALSE, aud |-> "client-1",
                      name |-> "Al", email |-> "al@x.io"] ]

NoPayload == [ok |-> FALSE, name |-> None, email |-> None]

\* google_id_token.verify_oauth2_token(token, request[, audience]):
\* raises (ok = FALSE) on a bad signature or expiry, and on an audience
\* mismatch when an audience is passed; line 72 passes one only if truthy.
verify_oauth2_token(token) ==
    LET audience == getenv("GOOGLE_OAUTH_CLIENT_ID")
    IN  IF token \notin DOMAIN Tokens THEN NoPayload
        ELSE LET t == Tokens[token]
             IN  IF ~t.valid THEN NoPayload
                 ELSE IF Truthy(audience) /\ t.aud # audience THEN NoPayload
                 ELSE [ok |-> TRUE, name |-> t.name, email |-> t.email]

json_str(v) == IF v = None THEN "null" ELSE "\"" \o v \o "\""

\* json.dumps({"name": name, "email": email})
json_dumps_name_email(name, email) ==
    "{\"name\": " \o json_str(name) \o ", \"email\": " \o json_str(email) \o "}"

\* Lines 65-82 without the check of line 81: a caller with no identity
\* evidence goes on with an empty identity.
resolve_identity_unchecked(authorization, x_user) ==
    IF Truthy(authorization) /\ startswith(authorization, "Bearer ")
    THEN LET payload == verify_oauth2_token(split1_second(authorization))
         IN  IF payload.ok
             THEN [status |-> 200,
                   user_header |->
                       json_dumps_name_email(payload.name, payload.email)]
             ELSE [status |-> 401, user_header |-> None]
    ELSE [status |-> 200,
          user_header |-> IF Truthy(x_user) THEN x_user ELSE ""]

\* Lines 65-82 with a failed verification falling through to the X-User
\* header instead of raising at line 77.
resolve_identity_header_fallback(authorization, x_user) ==
    LET bearer  == Truthy(authorization) /\ startswith(authorization, "Bearer ")
        payload == IF bearer
                   THEN verify_oauth2_token(split1_second(authorization))
                   ELSE NoPayload
    IN  IF payload.ok
        THEN [status |-> 200,
              user_header |->
                  json_dumps_name_email(payload.name, payload.email)]
        ELSE IF Truthy(x_user)
        THEN [status |-> 200, user_header |-> x_user]
        ELSE [status |-> 401, user_header |-> None]

\* Lines 65-82: [status |-> 200, user_header] or the HTTPException raised.
resolve_identity(authorization, x_user) ==
    IF Truthy(authorization) /\ startswith(authorization, "Bearer ")
    THEN LET payload == verify_oauth2_token(split1_second(authorization))
         IN  IF payload.ok
             THEN [status |-> 200,
                   user_header |->
                       json_dumps_name_email(payload.name, payload.email)]
             ELSE [status |-> 401, user_header |-> None]
    ELSE LET user_header == IF Truthy(x_user) THEN x_user ELSE None
         IN  IF ~Truthy(user_header)
             THEN [status |-> 401, user_header |-> None]
             ELSE [status |-> 200, user_header |-> user_header]

(***************************************************************************)
(* Risk classification (create_transaction, lines 83-135)                  *)
(***************************************************************************)
\* What the outbound call produced: kind "exception" (transport failure or
\* timeout, caught at line 97), "nonjson" (risk_response.json() raised,
\* caught at line 95) or "json" with the decoded body.  A decoded body is a
\* dict (risk_level = None when the key is absent) or some other JSON value.
EmptyDict == [type |-> "dict", risk_level |-> None]

risk_data_of(reply) == IF reply.kind = "json" THEN reply.body ELSE EmptyDict

\* Lines 104-107
HIGH_RISK_AMOUNT ==
    LET p == py_int(getenv_default("HIGH_RISK_AMOUNT", "10000"))
    IN  IF p.ok THEN p.value ELSE 10000

\* Line 110
risk_level_of(risk_data) ==
    IF risk_data.type = "dict" THEN risk_data.risk_level ELSE None

\* Lines 109-123 with the fallback comparing with > instead of >=
is_high_of_strict(amount, risk_level) ==
    IF risk_level = "HIGH" THEN TRUE
    ELSE IF risk_level = "MEDIUM" THEN FALSE
    ELSE IF risk_level = "LOW" THEN FALSE
    ELSE amount > HIGH_RISK_AMOUNT

\* Lines 109-123
is_high_of(amount, risk_level) ==
    IF risk_level = "HIGH" THEN TRUE
    ELSE IF risk_level = "MEDIUM" THEN FALSE
    ELSE IF risk_level = "LOW" THEN FALSE
    ELSE amount >= HIGH_RISK_AMOUNT

\* Lines 126-135
display_risk_level(amount, risk_level) ==
    IF risk_level \in {"HIGH", "MEDIUM", "LOW"} THEN risk_level
    ELSE IF amount > 10000 THEN "HIGH"
    ELSE IF amount > 1000 THEN "MEDIUM"
    ELSE "LOW"

\* Lines 137-147.  transaction.high_risk and transaction.risk_level have been
\* overwritten at lines 123-135 before they are read here.
build_record(req, reply) ==
    LET risk_level == risk_level_of(risk_data_of(reply))
    IN  [id         |-> next_uuid,
         timestamp  |-> now,
         user       |-> req.user_header,
         amount     |-> req.transaction.amount,
         currency   |-> req.transaction.currency,
         merchant   |-> req.transaction.merchant,
         risk_level |-> display_risk_level(req.transaction.amount, risk_level),
         high_risk  |-> is_high_of(req.transaction.amount, risk_level)]

(***************************************************************************)
(* Persistence (save_transaction_record, lines 43-59)                      *)
(***************************************************************************)
\* Lines 54-55 without the eviction of lines 57-58
store_insert_unbounded(store, record) == <<record>> \o store

\* Lines 54-58: insert at the front, then drop the last element if the list
\* has grown past 200.
store_insert(store, record) ==
    LET grown == <<record>> \o store
    IN  IF Len(grown) > 200 THEN SubSeq(grown, 1, Len(grown) - 1) ELSE grown

\* Whether the handlers go to DynamoDB (lines 45-46 and 200-202)
use_ddb == boto3 /\ Truthy(getenv("DDB_TABLE"))

\* save_transaction_record as a read-modify-write that another request
\* resumed in between overwrites: with a second create in flight the insert
\* into the list is lost.
save_transaction_record_lost_update(record, put) ==
    IF use_ddb /\ put = "ok"
    THEN [raised |-> FALSE, saved |-> TRUE,
          store |-> transactions_store, table |-> ddb_table \cup {record}]
    ELSE IF use_ddb /\ put = "type_error"
    THEN [raised |-> TRUE, saved |-> FALSE,
          store |-> transactions_store, table |-> ddb_table]
    ELSE [raised |-> FALSE, saved |-> FALSE,
          store |-> IF BagCardinality(inflight) > 1
                    THEN transactions_store
                    ELSE store_insert(transactions_store, record),
          table |-> ddb_table]

\* put is what table.put_item did: "ok", "botocore_error" (BotoCoreError or
\* ClientError, caught at line 52) or "type_error" (any other exception; the
\* resource serializer raises TypeError for a Python float, and the record's
\* amount is float(...), line 142).  Such an exception leaves
\* save_transaction_record before the fallback and reaches the client as 500.
save_transaction_record(record, put) ==
    IF use_ddb /\ put = "ok"
    THEN [raised |-> FALSE, saved |-> TRUE,
          store |-> transactions_store, table |-> ddb_table \cup {record}]
    ELSE IF use_ddb /\ put = "type_error"
    THEN [raised |-> TRUE, saved |-> FALSE,
          store |-> transactions_store, table |-> ddb_table]
    ELSE [raised |-> FALSE, saved |-> FALSE,
          store |-> store_insert(transactions_store, record),
          table |-> ddb_table]

(***************************************************************************)
(* Responses                                                               *)
(***************************************************************************)
NoRecord ==
    [id |-> 0, timestamp |-> 0, user |-> None, amount |-> 0,
     currency |-> None, merchant |-> None, risk_level |-> None,
     high_risk |-> FALSE]

NoTransaction ==
    [amount |-> 0, currency |-> None, merchant |-> None,
     high_risk |-> FALSE, risk_level |-> None]

NoReply == [kind |-> "none", body |-> EmptyDict]

\* op, status and body (record / items) are the response; the other fields
\* keep the request it answers and what the handler read on the way:
\* reply (risk call), put (put_item), source and scanned (the backend a
\* listing was served from and the items before the identity filter).
NoResponse ==
    [op |-> "none", status |-> 0, authorization |-> None, x_user |-> None,
     transaction |-> NoTransaction, reply |-> NoReply, put |-> "none",
     saved_to_ddb |-> FALSE, record |-> NoRecord,
     limit |-> 0, source |-> "none", scanned |-> <<>>, items |-> <<>>]

(***************************************************************************)
(* POST /transactions                                                      *)
(***************************************************************************)
\* Lines 63-91: resolve the caller, then suspend at the risk call.
create_begin(authorization, x_user, transaction) ==
    LET who == resolve_identity(authorization, x_user)
    IN  /\ IF who.status = 200
           THEN /\ inflight' = inflight (+) SetToBag({
                       [authorization |-> authorization, x_user |-> x_user,
                        transaction |-> transaction,
                        user_header |-> who.user_header]})
                /\ last' = last
           ELSE /\ inflight' = inflight
                /\ last' = [NoResponse EXCEPT
                       !.op = "create", !.status = who.status,
                       !.authorization = authorization, !.x_user = x_user,
                       !.transaction = transaction]
        /\ UNCHANGED <<env, boto3, transactions_store, ddb_table, now,
                       next_uuid, memlog>>

\* Lines 92-156: the risk call returned or raised; classify, build the
\* record, save it, answer.
create_resume(req, reply, put) ==
    /\ BagIn(req, inflight)
    /\ LET record == build_record(req, reply)
           s      == save_transaction_record(record, put)
           done   == ~s.raised /\ ~s.saved
       IN  /\ transactions_store' = s.store
           /\ ddb_table' = s.table
           /\ last' = [NoResponse EXCEPT
                  !.op = "create",
                  !.status = IF s.raised THEN 500 ELSE 200,
                  !.authorization = req.authorization,
                  !.x_user = req.x_user,
                  !.transaction = req.transaction,
                  !.reply = reply,
                  !.put = IF use_ddb THEN put ELSE "none",
                  !.saved_to_ddb = s.saved,
                  !.record = IF s.raised THEN NoRecord ELSE record]
           /\ memlog' = IF done THEN <<record>> \o memlog ELSE memlog
    /\ inflight' = inflight (-) SetToBag({req})
    /\ next_uuid' = next_uuid + 1
    /\ UNCHANGED <<env, boto3, now>>

(***************************************************************************)
(* GET /transactions (list_transactions, lines 193-242)                    *)
(***************************************************************************)
RECURSIVE insert_desc(_, _)
\* x placed after every element whose timestamp is >= its own
insert_desc(acc, x) ==
    IF acc = <<>> THEN <<x>>
    ELSE IF Head(acc).timestamp >= x.timestamp
    THEN <<Head(acc)>> \o insert_desc(Tail(acc), x)
    ELSE <<x>> \o acc

RECURSIVE sorted_insert_all(_, _)
sorted_insert_all(acc, items) ==
    IF items = <<>> THEN acc
    ELSE sorted_insert_all(insert_desc(acc, Head(items)), Tail(items))

\* Line 209: sorted(items, key=timestamp, reverse=True), a stable sort
sorted_by_timestamp_desc(items) == sorted_insert_all(<<>>, items)

Orderings(S) ==
    {f \in [1..Cardinality(S) -> S] : \A i, j \in DOMAIN f : i # j => f[i] # f[j]}

\* Line 206, table.scan(Limit=limit): what DynamoDB may answer.  Limit must
\* be >= 1 (ParamValidationError, a BotoCoreError, otherwise); the scan
\* stops after `limit` items, in the table's own order, which is no order
\* of the timestamps.  [ok |-> FALSE] is a BotoCoreError or ClientError.
table_scan(limit) ==
    {[ok |-> FALSE, Items |-> <<>>]} \cup
    IF limit < 1 THEN {}
    ELSE {[ok |-> TRUE, Items |-> f] :
            f \in UNION {Orderings(S) :
                    S \in {T \in SUBSET ddb_table :
                             Cardinality(T) = Min(limit, Cardinality(ddb_table))}}}

\* json.loads on the identity strings of the model.  A string written by
\* json.dumps at line 74 decodes to its dict; the others are listed.
JsonNames == {None, "Al", "Bob"}

JsonEmails == {None, "al@x.io", "bob@x.io"}

json_loads(s) ==
    IF \E n \in JsonNames, e \in JsonEmails : s = json_dumps_name_email(n, e)
    THEN LET e == CHOOSE e \in JsonEmails :
                    \E n \in JsonNames : s = json_dumps_name_email(n, e)
         IN  [ok |-> TRUE, type |-> "dict", email |-> e]
    ELSE CASE s = "{\"email\":\"al@x.io\"}" ->
                  [ok |-> TRUE, type |-> "dict", email |-> "al@x.io"]
           [] s = "{\"email\": \"\"}" ->
                  [ok |-> TRUE, type |-> "dict", email |-> ""]
           [] s = "{\"name\": \"Al\"}" ->
                  [ok |-> TRUE, type |-> "dict", email |-> None]
           [] s = "[\"al@x.io\"]" ->
                  [ok |-> TRUE, type |-> "list", email |-> None]
           [] OTHER ->
                  [ok |-> FALSE, type |-> "none", email |-> None]

\* Lines 218-224: any exception (not JSON, or JSON that is no dict) is None
extract_email(s) ==
    LET j == json_loads(s)
    IN  IF j.ok /\ j.type = "dict" THEN j.email ELSE None

RECURSIVE filter_items(_, _)
\* Lines 226-239, the loop over items
filter_items(items, x_user) ==
    IF items = <<>> THEN <<>>
    ELSE LET it   == Head(items)
             u    == it.user
             rest == filter_items(Tail(items), x_user)
             hdr_email    == extract_email(x_user)
             stored_email == extract_email(u)
         IN  IF ~Truthy(u) THEN rest
             ELSE IF u = x_user THEN <<it>> \o rest
             ELSE IF Truthy(hdr_email) /\ Truthy(stored_email)
                     /\ hdr_email = stored_email
             THEN <<it>> \o rest
             ELSE rest

\* Lines 200-242.  scan is the answer of table.scan, read only if use_ddb.
list_transactions(limit, x_user, scan) ==
    LET from_ddb == use_ddb /\ scan.ok
        scanned  == IF from_ddb
                    THEN PySliceTo(sorted_by_timestamp_desc(scan.Items), limit)
                    ELSE PySliceTo(transactions_store, limit)
        items    == IF Truthy(x_user)
                    THEN PySliceTo(filter_items(scanned, x_user), limit)
                    ELSE scanned
    IN  /\ last' = [NoResponse EXCEPT
               !.op = "list", !.status = 200, !.x_user = x_user,
               !.limit = limit,
               !.source = IF from_ddb THEN "ddb"
                          ELSE IF use_ddb THEN "fallback" ELSE "memory",
               !.scanned = scanned, !.items = items]
        /\ UNCHANGED <<env, boto3, transactions_store, ddb_table, inflight,
                       now, next_uuid, memlog>>

(***************************************************************************)
(* DELETE /transactions (clear_transactions, lines 245-253)                *)
(***************************************************************************)
\* Line 249
allow_clear ==
    lower(getenv_default("ALLOW_CLEAR", "false")) \in {"1", "true", "yes"}

\* The refusal tied to the condition save and list use for "DynamoDB is
\* configured" (boto3 and table_name), not to the table name alone.
clear_refused_if_ddb_in_use == use_ddb /\ ~allow_clear

\* Line 250
clear_refused == Truthy(getenv("DDB_TABLE")) /\ ~allow_clear

clear_transactions ==
    /\ IF clear_refused
       THEN /\ last' = [NoResponse EXCEPT !.op = "clear", !.status = 403]
            /\ UNCHANGED <<transactions_store, memlog>>
       ELSE /\ last' = [NoResponse EXCEPT !.op = "clear", !.status = 200]
            /\ transactions_store' = <<>>
            /\ memlog' = <<>>
    /\ UNCHANGED <<env, boto3, ddb_table, inflight, now, next_uuid>>

(***************************************************************************)
(* The clock                                                               *)
(***************************************************************************)
MaxClock == 2

\* time.time() moves on between two steps of the event loop
tick ==
    /\ now < MaxClock
    /\ now' = now + 1
    /\ UNCHANGED <<env, boto3, transactions_store, ddb_table, inflight,
                   next_uuid, last, memlog>>

(***************************************************************************)
(* The service: any configuration, concurrent requests                     *)
(***************************************************************************)
MaxCreates == 2

MaxInflight == 2

\* create requests that passed identity resolution so far
started == (next_uuid - 1) + BagCardinality(inflight)

\* The model's bound on creates: a request that will pass identity
\* resolution is let in only below the two caps.
within(authorization, x_user, max_creates, max_inflight) ==
    resolve_identity(authorization, x_user).status = 200 =>
        /\ started < max_creates
        /\ BagCardinality(inflight) < max_inflight

Environment(tables, clears, thresholds, audiences) ==
    [DDB_TABLE : tables, ALLOW_CLEAR : clears,
     HIGH_RISK_AMOUNT : thresholds, GOOGLE_OAUTH_CLIENT_ID : audiences]

Transaction(amount, high_risk, risk_level) ==
    [amount |-> amount, currency |-> "USD", merchant |-> "ACME",
     high_risk |-> high_risk, risk_level |-> risk_level]

JsonReply(risk_level) ==
    [kind |-> "json", body |-> [type |-> "dict", risk_level |-> risk_level]]

ExceptionReply == [kind |-> "exception", body |-> EmptyDict]

\* The state after import: nothing stored, nothing in flight.
InitWith(environments, libraries) ==
    /\ env \in environments
    /\ boto3 \in libraries
    /\ transactions_store = <<>>
    /\ ddb_table = {}
    /\ inflight = EmptyBag
    /\ now = 1
    /\ next_uuid = 1
    /\ last = NoResponse
    /\ memlog = <<>>

Init ==
    InitWith(Environment({None, "transactions"}, {None, "TRUE", "no"},
                         {None}, {None}),
             BOOLEAN)

Next ==
    \/ \E x \in {None, "alice", "bob"} :
           /\ within(None, x, MaxCreates, MaxInflight)
           /\ create_begin(None, x, Transaction(500, FALSE, None))
    \/ \E req \in BagToSet(inflight) :
           \E reply \in {ExceptionReply, JsonReply("HIGH")},
              put \in {"ok", "botocore_error", "type_error"} :
               create_resume(req, reply, put)
    \/ \E limit \in {1, 20} :
           \E scan \in table_scan(limit) :
               list_transactions(limit, None, scan)
    \/ clear_transactions
    \/ tick

Spec == Init /\ [][Next]_vars

(***************************************************************************)
(* Properties                                                              *)
(***************************************************************************)
Range(f) == {f[i] : i \in DOMAIN f}

\* The override as an operator reads it: ALLOW_CLEAR is 1, true or yes in
\* any letter case.
OverrideSet ==
    env.ALLOW_CLEAR \in {"1", "true", "True", "TRUE", "yes", "Yes", "YES"}

\* C4: with a table name configured and the override not set, DELETE
\* /transactions answers 403 and changes neither the in-memory store nor
\* the durable table.
C4_ClearRefusedLeavesData ==
    [][(last' # last /\ last'.op = "clear" /\ Truthy(env.DDB_TABLE) /\ ~OverrideSet)
          => /\ last'.status = 403
             /\ transactions_store' = transactions_store
             /\ ddb_table' = ddb_table]_vars

C4_Witness ==
    /\ last.op = "clear" /\ last.status = 403
    /\ Truthy(env.DDB_TABLE) /\ ~OverrideSet
    /\ transactions_store # <<>>
    /\ ddb_table # {}

\* C7: a create whose identity resolved answers 200 with the full record
\* whatever the risk call and the durable write did, and the record is in
\* exactly one backend (the table if the write succeeded, else the front of
\* the in-memory store); a listing answers 200, and after a failed durable
\* read it returns the first `limit` records of the in-memory store.
C7_FaultsNeverSurface ==
    /\ (last.op = "create" /\ last.status # 401) =>
          /\ last.status = 200
          /\ last.record.id # 0
          /\ IF last.saved_to_ddb
             THEN /\ last.record \in ddb_table
                  /\ last.record \notin Range(transactions_store)
             ELSE /\ transactions_store # <<>>
                  /\ transactions_store[1] = last.record
                  /\ last.record \notin ddb_table
    /\ last.op = "list" =>
          /\ last.status = 200
          /\ last.source = "fallback" =>
                last.scanned =
                    SubSeq(transactions_store, 1,
                           Min(last.limit, Len(transactions_store)))

\* C8: an unfiltered listing with limit >= 1 returns min(limit, N) of the N
\* records of the backend it was served from, newest first, and no record
\* left out is newer than a record returned.
C8_ListingIsMostRecent ==
    (last.op = "list" /\ ~Truthy(last.x_user) /\ last.limit >= 1) =>
        LET backend == IF last.source = "ddb" THEN ddb_table
                       ELSE Range(transactions_store)
            got     == Range(last.items)
        IN  /\ Len(last.items) = Min(last.limit, Cardinality(backend))
            /\ got \subseteq backend
            /\ \A i, j \in DOMAIN last.items :
                   i < j => last.items[i].timestamp >= last.items[j].timestamp
            /\ \A r \in backend \ got, q \in got : r.timestamp <= q.timestamp

\* C9: when creates and listings are served by the in-memory store (no
\* table name, or no client library), DELETE /transactions answers 200 and
\* leaves the in-memory store empty, whatever the override says.
C9_MemoryClearAlwaysEmpties ==
    (last.op = "clear" /\ (~Truthy(env.DDB_TABLE) \/ ~boto3)) =>
        /\ last.status = 200
        /\ transactions_store = <<>>

(***************************************************************************)
(* Identity: every combination of Authorization and X-User, one backend    *)
(* configuration in which both stores receive records                      *)
(***************************************************************************)
MaxAuthCreates == 2

MaxAuthInflight == 1

InitAuth ==
    InitWith(Environment({"transactions"}, {None}, {None},
                         {None, "", "client-1"}),
             {TRUE})

NextAuth ==
    \/ \E a \in {None, "Basic abc", "Bearer tokAl", "Bearer tokNoEmail",
                 "Bearer tokOther", "Bearer tokExpired", "Bearer "},
          x \in {None, "", "alice"} :
           /\ within(a, x, MaxAuthCreates, MaxAuthInflight)
           /\ create_begin(a, x, Transaction(500, FALSE, None))
    \/ \E req \in BagToSet(inflight) :
           \E put \in {"ok", "botocore_error", "type_error"} :
               create_resume(req, ExceptionReply, put)
    \/ \E scan \in table_scan(20) : list_transactions(20, None, scan)
    \/ clear_transactions

SpecAuth == InitAuth /\ [][NextAuth]_vars

\* An Authorization value that is a bearer token, and the token in it
BearerPrefixed(a) == a # None /\ Len(a) >= 7 /\ SubSeq(a, 1, 7) = "Bearer "

BearerToken(a) == SubSeq(a, 8, Len(a))

NoEvidence(a, x) == ~BearerPrefixed(a) /\ (x = None \/ x = "")

Stored == Range(transactions_store) \cup ddb_table

\* C5: a create with no identity evidence answers 401 before the risk call,
\* changing neither store (nor anything else), and every record of the
\* in-memory store and of the durable table has a non-empty identity.
C5_NoEvidenceNoRecord ==
    /\ [](\A r \in Stored : r.user # None /\ r.user # "")
    /\ [][(last' # last /\ last'.op = "create"
             /\ NoEvidence(last'.authorization, last'.x_user))
          => /\ last'.status = 401
             /\ last'.reply.kind = "none"
             /\ transactions_store' = transactions_store
             /\ ddb_table' = ddb_table
             /\ inflight' = inflight
             /\ next_uuid' = next_uuid]_vars

C5_Witness ==
    /\ last.op = "create" /\ last.status = 401
    /\ NoEvidence(last.authorization, last.x_user)
    /\ last.x_user = ""
    /\ transactions_store # <<>>
    /\ ddb_table # {}

\* What the identity provider accepts: a good signature, not expired, and
\* the configured audience if one is configured.
AudienceConfigured == env.GOOGLE_OAUTH_CLIENT_ID \notin {None, ""}

Verifies(tok) ==
    /\ tok \in DOMAIN Tokens
    /\ Tokens[tok].valid
    /\ AudienceConfigured => Tokens[tok].aud = env.GOOGLE_OAUTH_CLIENT_ID

\* The identity strings expected for the tokens' {name, email} claims
ExpectedIdentity ==
    [ tokAl      |-> "{\"name\": \"Al\", \"email\": \"al@x.io\"}",
      tokNoEmail |-> "{\"name\": null, \"email\": null}",
      tokOther   |-> "{\"name\": \"Bob\", \"email\": \"bob@x.io\"}",
      tokExpired |-> "{\"name\": \"Al\", \"email\": \"al@x.io\"}" ]

BothSupplied(a, x) == BearerPrefixed(a) /\ x # None /\ x # ""

\* C6: with a bearer token and an X-User header, X-User is never used: a
\* token that verifies gives the record the encoding of its {name, email}
\* claims; one that does not gives 401 and no record, no request in flight.
C6_TokenBeforeHeader ==
    /\ [](\A req \in BagToSet(inflight) :
             BothSupplied(req.authorization, req.x_user) =>
                 /\ Verifies(BearerToken(req.authorization))
                 /\ req.user_header =
                        ExpectedIdentity[BearerToken(req.authorization)])
    /\ []((last.op = "create"
             /\ BothSupplied(last.authorization, last.x_user)) =>
            IF Verifies(BearerToken(last.authorization))
            THEN /\ last.status # 401
                 /\ last.status = 200 =>
                        /\ last.record \in Stored
                        /\ last.record.user =
                               ExpectedIdentity[BearerToken(last.authorization)]
            ELSE /\ last.status = 401
                 /\ last.record = NoRecord)
    /\ [][(last' # last /\ last'.op = "create"
             /\ BothSupplied(last'.authorization, last'.x_user)
             /\ ~Verifies(BearerToken(last'.authorization)))
          => /\ transactions_store' = transactions_store
             /\ ddb_table' = ddb_table
             /\ inflight' = inflight]_vars

C6_Witness ==
    /\ last.op = "create" /\ last.status = 401
    /\ last.authorization = "Bearer tokOther" /\ last.x_user = "alice"
    /\ env.GOOGLE_OAUTH_CLIENT_ID = "client-1"
    /\ \E r \in Stored : r.user = ExpectedIdentity["tokAl"]
    /\ \A r \in Stored : r.user # "alice"

(***************************************************************************)
(* Risk classification: amounts around the bands, every kind of reply,     *)
(* thresholds, client-supplied risk fields; in-memory store                *)
(***************************************************************************)
MaxRiskCreates == 1

MaxRiskInflight == 1

NonJsonReply == [kind |-> "nonjson", body |-> EmptyDict]

\* a reply whose JSON body is not an object
ListReply == [kind |-> "json", body |-> [type |-> "list", risk_level |-> None]]

RiskReplies ==
    {ExceptionReply, NonJsonReply, ListReply} \cup
    {JsonReply(l) : l \in {None, "HIGH", "MEDIUM", "LOW", "UNKNOWN", "high"}}

InitRisk ==
    InitWith(Environment({None}, {None}, {None, "5000", "abc"}, {None}),
             {TRUE})

NextRisk ==
    \/ \E amount \in {1000, 1001, 5000, 10000, 10001},
          high_risk \in BOOLEAN, risk_level \in {None, "HIGH"} :
           /\ within(None, "alice", MaxRiskCreates, MaxRiskInflight)
           /\ create_begin(None, "alice",
                           Transaction(amount, high_risk, risk_level))
    \/ \E req \in BagToSet(inflight) :
           \E reply \in RiskReplies : create_resume(req, reply, "ok")
    \/ clear_transactions

SpecRisk == InitRisk /\ [][NextRisk]_vars

\* The tier the service returned, if it returned a recognized one
ServiceTier(reply) ==
    IF reply.kind = "json" /\ reply.body.type = "dict"
       /\ reply.body.risk_level \in {"HIGH", "MEDIUM", "LOW"}
    THEN reply.body.risk_level
    ELSE "none"

\* The configured threshold: the integer in HIGH_RISK_AMOUNT, 10000 if
\* there is none
ConfiguredThreshold == IF env.HIGH_RISK_AMOUNT = "5000" THEN 5000 ELSE 10000

ReferenceHighRisk(amount, tier) ==
    IF tier # "none" THEN tier = "HIGH" ELSE amount >= ConfiguredThreshold

ReferenceRiskLevel(amount, tier) ==
    IF tier # "none" THEN tier
    ELSE IF amount > 10000 THEN "HIGH"
    ELSE IF amount > 1000 THEN "MEDIUM"
    ELSE "LOW"

\* C1: the risk fields of a created record are the reference function of
\* (amount, service outcome, configured threshold): the service's tier if
\* it is HIGH, MEDIUM or LOW, else the threshold for high_risk and the
\* bands for risk_level; risk_level is always LOW, MEDIUM or HIGH, and the
\* client's own high_risk / risk_level play no part.
C1_RiskFieldsAreReference ==
    /\ \A r \in Stored : r.risk_level \in {"LOW", "MEDIUM", "HIGH"}
    /\ (last.op = "create" /\ last.status = 200) =>
          LET tier == ServiceTier(last.reply)
          IN  /\ last.record \in Stored
              /\ last.record.amount = last.transaction.amount
              /\ last.record.high_risk =
                     ReferenceHighRisk(last.transaction.amount, tier)
              /\ last.record.risk_level =
                     ReferenceRiskLevel(last.transaction.amount, tier)

C1_Witness ==
    /\ last.op = "create" /\ last.status = 200
    /\ env.HIGH_RISK_AMOUNT = "5000"
    /\ last.reply = JsonReply("UNKNOWN")
    /\ last.transaction.amount = 5000
    /\ last.transaction.high_risk = FALSE
    /\ last.transaction.risk_level = "HIGH"
    /\ last.record.high_risk = TRUE
    /\ last.record.risk_level = "MEDIUM"
    /\ last.record \in Stored

(***************************************************************************)
(* The in-memory store at capacity: no table configured, concurrent        *)
(* creates, listings and clears, enough creates to overflow the list       *)
(***************************************************************************)
MaxCapCreates == 201

MaxCapInflight == 2

InitCap ==
    InitWith(Environment({None}, {None}, {None}, {None}), {TRUE})

NextCap ==
    \/ /\ within(None, "alice", MaxCapCreates, MaxCapInflight)
       /\ create_begin(None, "alice", Transaction(500, FALSE, None))
    \/ \E req \in BagToSet(inflight) :
           create_resume(req, ExceptionReply, "ok")
    \/ \E scan \in table_scan(250) : list_transactions(250, None, scan)
    \/ clear_transactions

SpecCap == InitCap /\ [][NextCap]_vars

\* a step that answers a create whose record went to the in-memory store
MemoryInsert ==
    /\ last' # last
    /\ last'.op = "create" /\ last'.status = 200 /\ ~last'.saved_to_ddb

\* C2: the in-memory store never holds more than 200 records, and an insert
\* into a store of 200 puts the new record first, drops exactly the last
\* one and keeps the other 199 in their order.
C2_StoreBoundedEvictsOldest ==
    /\ [](Len(transactions_store) <= 200)
    /\ [][(MemoryInsert /\ Len(transactions_store) = 200)
          => /\ Len(transactions_store') = 200
             /\ transactions_store'[1] = last'.record
             /\ last'.record \notin Range(transactions_store)
             /\ \A i \in 1..199 :
                    transactions_store'[i + 1] = transactions_store[i]]_vars

C2_Witness ==
    /\ Len(transactions_store) = 200
    /\ Len(memlog) = 201
    /\ last.op = "create"
    /\ transactions_store[1] = last.record
    /\ memlog[201] \notin Range(transactions_store)

\* C10: with requests suspended only at the risk call, the store is at
\* every moment exactly the (at most 200) newest of the records whose
\* create completed on the memory path since the last executed clear, in
\* order of completion; a listing sees such a store, never more than 200
\* records and only whole records.
C10_InsertEvictAtomic ==
    /\ transactions_store = SubSeq(memlog, 1, Min(200, Len(memlog)))
    /\ \A i \in 1..(Len(transactions_store) - 1) :
           transactions_store[i].id > transactions_store[i + 1].id
    /\ (last.op = "list" /\ last.source # "ddb") =>
           /\ Len(last.items) <= 200
           /\ last.items =
                  SubSeq(memlog, 1, Min(last.limit, Min(200, Len(memlog))))

C10_Witness ==
    /\ last.op = "list"
    /\ Len(last.items) = 200
    /\ Len(memlog) = 201
    /\ BagCardinality(inflight) = 0
    /\ next_uuid = 202

(***************************************************************************)
(* The identity filter of list_transactions as a function of the stores,   *)
(* the limit and the X-User header: the stores are drawn from bounded      *)
(* sets and only listings run.  Records in the in-memory store got there   *)
(* through a failed put_item; the table is shared with other writers, so   *)
(* an item there may lack its user.                                        *)
(***************************************************************************)
MaxFilterRecords == 2

FilterIdentities ==
    {"alice",
     "{\"name\": \"Al\", \"email\": \"al@x.io\"}",
     "{\"email\":\"al@x.io\"}",
     "{\"name\": \"Bob\", \"email\": \"bob@x.io\"}",
     "{\"name\": null, \"email\": null}",
     "{\"email\": \"\"}",
     "{\"name\": \"Al\"}",
     "[\"al@x.io\"]"}

FilterRecord(i, user) ==
    [id |-> i, timestamp |-> i, user |-> user, amount |-> 500,
     currency |-> "USD", merchant |-> "ACME", risk_level |-> "LOW",
     high_risk |-> FALSE]

RECURSIVE newest_first(_, _, _)
\* the records i, i-1, ..., 1 that are placed in memory, newest first
newest_first(i, users, place) ==
    IF i = 0 THEN <<>>
    ELSE (IF place[i] = "memory" THEN <<FilterRecord(i, users[i])>> ELSE <<>>)
         \o newest_first(i - 1, users, place)

InitFilter ==
    /\ env \in Environment({"transactions"}, {None}, {None}, {None})
    /\ boto3 = TRUE
    /\ \E k \in 0..MaxFilterRecords :
       \E users \in [1..k -> FilterIdentities \cup {None}],
          place \in [1..k -> {"memory", "ddb"}] :
           /\ \A i \in 1..k : place[i] = "memory" => Truthy(users[i])
           /\ transactions_store = newest_first(k, users, place)
           /\ ddb_table = {FilterRecord(i, users[i]) :
                             i \in {j \in 1..k : place[j] = "ddb"}}
           /\ memlog = newest_first(k, users, place)
           /\ next_uuid = k + 1
           /\ now = Max(1, k)
    /\ inflight = EmptyBag
    /\ last = NoResponse

NextFilter ==
    \E limit \in {-1, 0, 1, 2, 20}, x \in FilterIdentities \cup {None, ""} :
        \E scan \in table_scan(limit) : list_transactions(limit, x, scan)

SpecFilter == InitFilter /\ [][NextFilter]_vars

\* The email a string carries when it decodes as a structured value
\* (a JSON object) with a non-empty email; None otherwise.
CarriedEmail(s) ==
    CASE s = "{\"name\": \"Al\", \"email\": \"al@x.io\"}" -> "al@x.io"
      [] s = "{\"email\":\"al@x.io\"}" -> "al@x.io"
      [] s = "{\"name\": \"Bob\", \"email\": \"bob@x.io\"}" -> "bob@x.io"
      [] OTHER -> None

IdentityMatches(user, filter) ==
    /\ user # None
    /\ \/ user = filter
       \/ /\ CarriedEmail(user) # None
          /\ CarriedEmail(user) = CarriedEmail(filter)

FilteredScan ==
    LET Keep(r) == IdentityMatches(r.user, last.x_user)
    IN  SelectSeq(last.scanned, Keep)

\* C3: for every store content, every limit and every non-empty filter, a
\* filtered listing answers 200 with exactly the records of the unfiltered
\* scan (same limit, same order) whose identity equals the filter or carries
\* the same non-empty email as the filter.
C3_FilterIsExactSubsequence ==
    (last.op = "list" /\ last.x_user # None /\ last.x_user # "") =>
        /\ last.status = 200
        /\ last.items = FilteredScan

\* The same for limits >= 0 (a negative limit makes the slice of line 240
\* drop the last -limit matches).
FilterIsExactSubsequenceNonNegative ==
    (last.op = "list" /\ last.x_user # None /\ last.x_user # ""
       /\ last.limit >= 0) =>
        /\ last.status = 200
        /\ last.items = FilteredScan

=============================================================================
